---- MODULE Spec2Model ----
(***************************************************************************)
(* Model of the Trinamic TMCM-140 serial command/reply driver              *)
(* (acq4/drivers/ThorlabsMFC1/tmcm.py): the re-entrant session lock, the   *)
(* _waiting_for_reply flag, the 9-byte frame codec and the public          *)
(* controller operations, run by several threads against a serial          *)
(* transport and a device.                                                 *)
(*                                                                         *)
(* Python integers are unbounded; the model writes an integer n as the     *)
(* pair <<hi, lo>> with n = hi * 2^16 + lo and 0 <= lo < 2^16, so that     *)
(* values around 2^31 and 2^32 keep their exact width.                     *)
(*                                                                         *)
(* A thread's step is the code it runs between two points where it can     *)
(* block: acquiring the lock, read(9) on the transport, readAll().  The    *)
(* unwinding of an exception (the finally clause, the exits of the with    *)
(* blocks) belongs to the step that raises.                                *)
(***************************************************************************)
EXTENDS Integers, Sequences, FiniteSets, TLC

\* ------------------------------------------------------------------ bounds

NThreads == 2
MaxCalls == 2

Threads == 1..NThreads

\* ------------------------------------------------------- Python integers

\* 2^16
Half == 256 * 256

\* The integer n (|n| < 2^31) as <<hi, lo>>.
W(n) == <<n \div Half, n % Half>>

WLess(a, b) == a[1] < b[1] \/ (a[1] = b[1] /\ a[2] < b[2])

WLeq(a, b) == a = b \/ WLess(a, b)

WNeg(a) == IF a[2] = 0 THEN <<-a[1], 0>> ELSE <<-a[1] - 1, Half - a[2]>>

\* 2^32 and -2^32, the limits move() asserts.
Two32 == <<Half, 0>>

MinusTwo32 == <<-Half, 0>>

\* ------------------------------------------------------------------ tables

COMMANDS ==
    [rol |-> 2, ror |-> 1, mvp |-> 4, mst |-> 3, rfs |-> 13, sco |-> 30,
     cco |-> 32, gco |-> 31, sap |-> 5, gap |-> 6, stap |-> 7, rsap |-> 8,
     sgp |-> 9, ggp |-> 10, stgp |-> 11, rsgp |-> 12, sio |-> 14, gio |-> 15,
     calc |-> 19, comp |-> 20, jc |-> 21, ja |-> 22, csub |-> 23, rsub |-> 24,
     wait |-> 27, stop |-> 28, calcx |-> 33, aap |-> 34, agp |-> 35,
     aco |-> 39, sac |-> 29, stop_application |-> 128,
     run_application |-> 129, step_application |-> 130,
     reset_application |-> 131, start_download |-> 132,
     stop_download |-> 133, get_application_status |-> 135,
     get_firmware_version |-> 136, restore_factory_settings |-> 137]

\* Negative codes are read-only parameters.
PARAMETERS ==
    [target_position |-> 0, actual_position |-> 1, target_speed |-> 2,
     actual_speed |-> 3, maximum_speed |-> 4, maximum_acceleration |-> 5,
     maximum_current |-> 6, standby_current |-> 7, target_pos_reached |-> 8,
     ref_switch_status |-> 9, right_limit_switch_status |-> 10,
     left_limit_switch_status |-> 11, right_limit_switch_disable |-> 12,
     left_limit_switch_disable |-> 13, minimum_speed |-> -130,
     acceleration |-> -135, ramp_mode |-> 138, microstep_resolution |-> 140,
     soft_stop_flag |-> 149, ramp_divisor |-> 153, pulse_divisor |-> 154,
     referencing_mode |-> 193, referencing_search_speed |-> 194,
     referencing_switch_speed |-> 195, distance_end_switches |-> 196,
     mixed_decay_threshold |-> 203, freewheeling |-> 204,
     stall_detection_threshold |-> 205, actual_load_value |-> 206,
     driver_error_flags |-> -208, encoder_position |-> 209,
     encoder_prescaler |-> 210, fullstep_threshold |-> 211,
     maximum_encoder_deviation |-> 212, power_down_delay |-> 214,
     absolute_encoder_value |-> -215]

GLOBAL_PARAMETERS ==
    [eeprom_magic |-> 64, baud_rate |-> 65, serial_address |-> 66,
     ascii_mode |-> 67, eeprom_lock |-> 73, auto_start_mode |-> 77,
     tmcl_code_protection |-> 81, coordinate_storage |-> 84,
     tmcl_application_status |-> 128, download_mode |-> 129,
     tmcl_program_counter |-> 130, tick_timer |-> 132,
     random_number |-> -133]

\* The keys of STATUS (the messages themselves play no part).
STATUS == 1..6

Abs(n) == IF n < 0 THEN -n ELSE n

\* --------------------------------------------------------------- the codec

RECURSIVE SumBytes(_)
SumBytes(s) == IF s = <<>> THEN 0 ELSE Head(s) + SumBytes(Tail(s))

\* Fault: the checksum kept to 7 bits (& 0x7f).
ChecksumLow7(s) == SumBytes(s) % 128

\* sum(bytearray(cmd)) % 256
Checksum(s) == SumBytes(s) % 256

IsByte(b) == 0 <= b /\ b <= 255

\* Fault: the unsigned format taken for a 31-bit one, so that values of
\* 2^31 and above are refused.
FitsUnsigned31(v) == 0 <= v[1] /\ v[1] < 32768

\* struct.pack('>I', value) succeeds for 0 <= value < 2^32.
FitsUnsigned(v) == 0 <= v[1] /\ v[1] < Half

\* struct.pack('>i', value) succeeds for -2^31 <= value < 2^31.
FitsSigned(v) == -32768 <= v[1] /\ v[1] < 32768

\* Fault: the value packed little-endian ('<' in place of '>').
ValueBytesLittleEndian(v) ==
    LET h == v[1] % Half
    IN  <<v[2] % 256, v[2] \div 256, h % 256, h \div 256>>

\* The four big-endian bytes of value mod 2^32.
ValueBytes(v) ==
    LET h == v[1] % Half
    IN  <<h \div 256, h % 256, v[2] \div 256, v[2] % 256>>

\* struct.pack('>BBBBI', ...) then, on struct.error, struct.pack('>BBBBi', ...):
\* the 8 bytes, or <<>> when both raise struct.error.
Pack(addr, cmd_num, type, motor, value) ==
    IF ~(IsByte(addr) /\ IsByte(cmd_num) /\ IsByte(type) /\ IsByte(motor))
    THEN <<>>
    ELSE IF FitsUnsigned(value)
         THEN <<addr, cmd_num, type, motor>> \o ValueBytes(value)
         ELSE IF FitsSigned(value)
              THEN <<addr, cmd_num, type, motor>> \o ValueBytes(value)
              ELSE <<>>

\* Fault: the command written without its checksum byte.
FrameNoChecksum(body) == body

\* cmd + struct.pack('B', chksum)
Frame(body) == Append(body, Checksum(body))

\* The i32 of struct.unpack('>BBBBiB', d): bytes 5..8, big-endian, signed.
SignedValue(d) ==
    LET h == d[5] * 256 + d[6]
    IN  <<IF h >= 32768 THEN h - Half ELSE h, d[7] * 256 + d[8]>>

\* struct.unpack('>BBBBiB', d)
Unpack(d) ==
    [reply_addr |-> d[1], module_addr |-> d[2], status |-> d[3],
     cmd_num |-> d[4], value |-> SignedValue(d), chksum |-> d[9]]

\* ------------------------------------------------- the public operations
\* Each operation's code up to its call of command(): the exception it
\* raises (err), or the arguments of the command() call it makes and what
\* it returns of the reply ("none", "value": reply[4], "parts": the tuple).

Raise(e) ==
    [err |-> e, cmd |-> "", type |-> 0, motor |-> 0, value |-> W(0),
     ret |-> "none"]

CallCommand(c, ty, m, v, r) ==
    [err |-> "", cmd |-> c, type |-> ty, motor |-> m, value |-> v, ret |-> r]

\* Fault: the velocity sent with its sign, not its magnitude.
rotate_signed(velocity) ==
    IF ~(WLeq(W(-2047), velocity) /\ WLeq(velocity, W(2047)))
    THEN Raise("AssertionError")
    ELSE IF WLess(velocity, W(0))
         THEN CallCommand("rol", 0, 0, velocity, "none")
         ELSE CallCommand("ror", 0, 0, velocity, "none")

rotate(velocity) ==
    IF ~(WLeq(W(-2047), velocity) /\ WLeq(velocity, W(2047)))
    THEN Raise("AssertionError")
    ELSE IF WLess(velocity, W(0))
         THEN CallCommand("rol", 0, 0, WNeg(velocity), "none")
         ELSE CallCommand("ror", 0, 0, velocity, "none")

\* Fault: stop() stopping the program, not the motor.
stop_the_program == CallCommand("stop_application", 0, 0, W(0), "none")

stop == CallCommand("mst", 0, 0, W(0), "none")

\* Fault: the velocity argument ignored.
move_ignoring_velocity(pos, relative, velocity) ==
    IF ~(WLeq(MinusTwo32, pos) /\ WLess(pos, Two32))
    THEN Raise("AssertionError")
    ELSE CallCommand("mvp", IF relative THEN 1 ELSE 0, 0, pos, "none")

\* velocity: <<>> for None, <<v>> for an integer v.
move(pos, relative, velocity) ==
    IF ~(WLeq(MinusTwo32, pos) /\ WLess(pos, Two32))
    THEN Raise("AssertionError")
    ELSE IF velocity # <<>>
         THEN IF ~(WLeq(W(0), velocity[1]) /\ WLess(velocity[1], W(2048)))
              THEN Raise("AssertionError")
              ELSE Raise("NotImplementedError")
         ELSE CallCommand("mvp", IF relative THEN 1 ELSE 0, 0, pos, "none")

\* Fault: an unknown name taken for code 0 (PARAMETERS.get(param, 0)).
get_param_default(param) ==
    IF param \notin DOMAIN PARAMETERS
    THEN CallCommand("gap", 0, 0, W(0), "value")
    ELSE CallCommand("gap", Abs(PARAMETERS[param]), 0, W(0), "value")

\* Fault: the table code used as it is, without abs().
get_param_no_abs(param) ==
    IF param \notin DOMAIN PARAMETERS
    THEN Raise("KeyError")
    ELSE CallCommand("gap", PARAMETERS[param], 0, W(0), "value")

get_param(param) ==
    IF param \notin DOMAIN PARAMETERS
    THEN Raise("KeyError")
    ELSE CallCommand("gap", Abs(PARAMETERS[param]), 0, W(0), "value")

\* Fault: the guard on maximum_current written with >= in place of >.
set_param_guard_geq(param, value, force) ==
    IF param \notin DOMAIN PARAMETERS
    THEN Raise("KeyError")
    ELSE LET pnum == PARAMETERS[param]
         IN  IF pnum < 0
             THEN Raise("ReadOnly")
             ELSE IF pnum = PARAMETERS["maximum_current"]
                     /\ WLeq(W(100), value) /\ ~force
                  THEN Raise("Safety")
                  ELSE CallCommand("sap", pnum, 0, value, "none")

\* Fault: the parameter number taken by abs(), as get_param does, with no
\* read-only check.
set_param_abs(param, value, force) ==
    IF param \notin DOMAIN PARAMETERS
    THEN Raise("KeyError")
    ELSE LET pnum == Abs(PARAMETERS[param])
         IN  IF pnum = PARAMETERS["maximum_current"]
                /\ WLess(W(100), value) /\ ~force
             THEN Raise("Safety")
             ELSE CallCommand("sap", pnum, 0, value, "none")

set_param(param, value, force) ==
    IF param \notin DOMAIN PARAMETERS
    THEN Raise("KeyError")
    ELSE LET pnum == PARAMETERS[param]
         IN  IF pnum < 0
             THEN Raise("ReadOnly")
             ELSE IF pnum = PARAMETERS["maximum_current"]
                     /\ WLess(W(100), value) /\ ~force
                  THEN Raise("Safety")
                  ELSE CallCommand("sap", pnum, 0, value, "none")

\* __getitem__: controller[param]
getitem(param) == get_param(param)

\* Fault: indexed assignment passing force=True.
setitem_forced(param, value) == set_param(param, value, TRUE)

\* __setitem__: controller[param] = value
setitem(param, value) == set_param(param, value, FALSE)

get_global(param) ==
    IF param \notin DOMAIN GLOBAL_PARAMETERS
    THEN Raise("KeyError")
    ELSE CallCommand("ggp", Abs(GLOBAL_PARAMETERS[param]), 0, W(0), "value")

\* Fault: set_global without its read-only check.
set_global_unchecked(param, value) ==
    IF param \notin DOMAIN GLOBAL_PARAMETERS
    THEN Raise("KeyError")
    ELSE CallCommand("sgp", Abs(GLOBAL_PARAMETERS[param]), 0, value, "none")

set_global(param, value) ==
    IF param \notin DOMAIN GLOBAL_PARAMETERS
    THEN Raise("KeyError")
    ELSE LET pnum == GLOBAL_PARAMETERS[param]
         IN  IF pnum < 0
             THEN Raise("ReadOnly")
             ELSE CallCommand("sgp", pnum, 0, value, "none")

stop_program == CallCommand("stop_application", 0, 0, W(0), "none")

\* Fault: the address tested for truth ('if not address'), so that address
\* 0 is taken for None.
start_program_truthy(address) ==
    IF address = <<>> \/ address = <<W(0)>>
    THEN CallCommand("run_application", 0, 0, W(0), "none")
    ELSE CallCommand("run_application", 1, 0, address[1], "none")

\* address: <<>> for None, <<a>> for an integer a.
start_program(address) ==
    IF address = <<>>
    THEN CallCommand("run_application", 0, 0, W(0), "none")
    ELSE CallCommand("run_application", 1, 0, address[1], "none")

start_download(address) ==
    CallCommand("start_download", 0, 0, address, "none")

stop_download == CallCommand("stop_download", 0, 0, W(0), "none")

program_status == CallCommand("get_application_status", 0, 0, W(0), "value")

\* ------------------------------------------------------------- the calls
\* A call of a public operation: op is the method, name its command or
\* parameter name, ty the type argument of command(), v its value, flag
\* relative= / force=, aux the optional velocity= / address= (<<>>: None)
\* or the motor argument of command() (<<>>: 0),
\* kw the keyword arguments of set_params in the order kwds.values()
\* yields them.  A keyword's value is an integer (pair = FALSE: key=v) or
\* a 2-tuple (pair = TRUE: key=(p, v)).

NoCall ==
    [op |-> "", name |-> "", ty |-> 0, v |-> W(0), flag |-> FALSE,
     aux |-> <<>>, kw |-> <<>>]

Op(o, n, t, val, f, a) ==
    [op |-> o, name |-> n, ty |-> t, v |-> val, flag |-> f, aux |-> a,
     kw |-> <<>>]

KwInt(k, val) == [key |-> k, pair |-> FALSE, p |-> "", v |-> val]

KwPair(k, param, val) == [key |-> k, pair |-> TRUE, p |-> param, v |-> val]

SetParams(kwds) ==
    [op |-> "set_params", name |-> "", ty |-> 0, v |-> W(0), flag |-> FALSE,
     aux |-> <<>>, kw |-> kwds]

\* The code a call runs before it first acquires the lock.
Prepare(c) ==
    CASE c.op = "rotate" -> rotate(c.v)
      [] c.op = "stop" -> stop
      [] c.op = "move" -> move(c.v, c.flag, c.aux)
      [] c.op = "get_param" -> get_param(c.name)
      [] c.op = "set_param" -> set_param(c.name, c.v, c.flag)
      [] c.op = "getitem" -> getitem(c.name)
      [] c.op = "setitem" -> setitem(c.name, c.v)
      [] c.op = "get_global" -> get_global(c.name)
      [] c.op = "set_global" -> set_global(c.name, c.v)
      [] c.op = "stop_program" -> stop_program
      [] c.op = "start_program" -> start_program(c.aux)
      [] c.op = "start_download" -> start_download(c.v)
      [] c.op = "stop_download" -> stop_download
      [] c.op = "program_status" -> program_status
      [] c.op = "command" ->
             CallCommand(c.name, c.ty,
                         IF c.aux = <<>> THEN 0 ELSE c.aux[1][2], c.v, "parts")

\* ------------------------------------------------------------- the state

VARIABLES
    pc,           \* each thread's position in the operation it runs
    op,           \* the call a thread is running (NoCall when idle)
    cmd,          \* the arguments of the thread's command() call
    idx,          \* set_params: the index of the keyword being applied
    sent,         \* the frames the thread's current call has written
    d,            \* _get_reply: the 9 bytes read(9) returned
    result,       \* how the thread's call ended
    lock,         \* self.lock, an RLock: its owner (0: free) and hold count
    waiting,      \* self._waiting_for_reply
    module_addr,  \* self.module_addr
    wire,         \* frames written to the serial line, not yet handled
    rxbuf,        \* bytes received and not yet read
    dev,          \* the device: its axis parameters, its program's state
    ncalls        \* the calls made so far

vars ==
    <<pc, op, cmd, idx, sent, d, result, lock, waiting, module_addr, wire,
      rxbuf, dev, ncalls>>

NoResult == [kind |-> "", err |-> "", val |-> <<>>]

Raised(e) == [kind |-> "raise", err |-> e, val |-> <<>>]

Returned(v) == [kind |-> "ok", err |-> "", val |-> v]

\* The module addresses a session is constructed with.
ModuleAddrs == {1}

\* The axis parameters the device keeps (the others read as 0).
DevCodes == {4, 6}

Init ==
    /\ pc = [t \in Threads |-> "idle"]
    /\ op = [t \in Threads |-> NoCall]
    /\ cmd = [t \in Threads |-> Raise("")]
    /\ idx = [t \in Threads |-> 0]
    /\ sent = [t \in Threads |-> <<>>]
    /\ d = [t \in Threads |-> <<>>]
    /\ result = [t \in Threads |-> NoResult]
    /\ lock = [owner |-> 0, count |-> 0]
    /\ waiting = FALSE
    /\ module_addr \in ModuleAddrs
    /\ wire = <<>>
    /\ rxbuf = <<>>
    /\ dev = [param |-> [c \in DevCodes |-> W(0)], prog |-> 0]
    /\ ncalls = 0

\* ------------------------------------------------------------ the lock
\* threadsafe: with self.lock: return method(self, *args, **kwds)

\* Fault: a lock that never makes a caller wait.
CanEnterAlways(l, t) == TRUE

\* Fault: a plain Lock, which makes its own holder wait too.
CanEnterPlain(l, t) == l.owner = 0

\* RLock.acquire does not block when the lock is free or held by the caller.
CanEnter(l, t) == l.owner = 0 \/ l.owner = t

\* Fault: a lock that does not count its owner's acquisitions, so that the
\* first release frees it.
EnterNotCounted(l, t) == [owner |-> t, count |-> 1]

\* RLock.acquire: the caller owns the lock once more.
Enter(l, t) == [owner |-> t, count |-> l.count + 1]

\* Fault: a release that frees the lock whatever its hold count (a plain
\* Lock in place of the RLock).
ExitReleasesAll(l) == [owner |-> 0, count |-> 0]

\* Fault: a lock that is not released when the method returns.
ExitOnReturnSkipped(l) == l

\* The with block's exit when the method returns.
ExitOnReturn(l) ==
    [owner |-> IF l.count = 1 THEN 0 ELSE l.owner, count |-> l.count - 1]

\* Fault: acquire() / release() around the call with no try / finally, so
\* that an exception skips the release.
ExitSkipped(l) == l

\* The with block's exit when the method raises.
ExitOnRaise(l) ==
    [owner |-> IF l.count = 1 THEN 0 ELSE l.owner, count |-> l.count - 1]

\* An exception leaves every with block the thread is in: those of
\* command() and, around it, of set_params().
RECURSIVE Unwind(_, _)
Unwind(l, n) == IF n = 0 THEN l ELSE Unwind(ExitOnRaise(l), n - 1)

\* ------------------------------------------------------- the transport
\* SerialDevice: write(bytes) sends the bytes or raises; read(n) blocks
\* until n bytes are there, or raises TimeoutError when the timeout runs
\* out first; readAll() returns what is buffered, and leaves nothing.

\* read(n) has its n bytes.
ReadReturns(buf, n) == Len(buf) >= n

\* What read(n) returns, and what it leaves in the buffer.
ReadData(buf, n) == SubSeq(buf, 1, n)

ReadRest(buf, n) == SubSeq(buf, n + 1, Len(buf))

\* What readAll() returns.
ReadAll(buf) == buf

\* ---------------------------------------------------------- the device
\* The device answers a request frame with a 9-byte reply.  While the
\* requester is still in read(9) the line may corrupt the reply, add bytes
\* to it or lose it, and the device may refuse the request; a reply that
\* comes after the requester's timeout is a well-formed one.

ReplyKinds == {"ok", "err", "badsum", "extra", "lost"}

DevErrStatuses == {2}

DevApply(dv, f) ==
    CASE f[2] = COMMANDS["sap"] /\ f[3] \in DevCodes ->
             [dv EXCEPT !.param[f[3]] = SignedValue(f)]
      [] f[2] = COMMANDS["run_application"] -> [dv EXCEPT !.prog = 1]
      [] f[2] = COMMANDS["stop_application"] -> [dv EXCEPT !.prog = 0]
      [] OTHER -> dv

DevValue(dv, f) ==
    CASE f[2] = COMMANDS["gap"] ->
             IF f[3] \in DevCodes THEN dv.param[f[3]] ELSE W(0)
      [] f[2] = COMMANDS["get_application_status"] -> W(dv.prog)
      [] OTHER -> SignedValue(f)

DevReplyBody(f, status, value) == <<2, f[1], status, f[2]>> \o ValueBytes(value)

DevReply(dv, f, kind, status) ==
    LET body == DevReplyBody(f, status, DevValue(dv, f))
    IN  CASE kind = "lost" -> <<>>
          [] kind = "badsum" -> Append(body, (Checksum(body) + 1) % 256)
          [] kind = "extra" -> Append(Frame(body), 0)
          [] OTHER -> Frame(body)

\* The reply to the oldest unanswered frame is awaited: its requester is in
\* read(9).
InTime == Len(wire) = 1 /\ \E t \in Threads : pc[t] = "cmd_read"

DeviceReply ==
    /\ wire # <<>>
    /\ \E kind \in (IF InTime THEN ReplyKinds ELSE {"ok"}),
          es \in DevErrStatuses :
          LET f == Head(wire)
              status == IF kind = "err" THEN es ELSE 100
          IN  /\ rxbuf' = rxbuf \o DevReply(dev, f, kind, status)
              /\ dev' = IF kind = "err" THEN dev ELSE DevApply(dev, f)
    /\ wire' = Tail(wire)
    /\ UNCHANGED <<pc, op, cmd, idx, sent, d, result, lock, waiting,
                   module_addr, ncalls>>

\* ------------------------------------------------ the protocol engine

\* TMCMError(status): what raise TMCMError(status) raises.  __init__ looks
\* the message up in STATUS (KeyError for a status that is not a key) and
\* then calls Exception.__init__(msg) without self, which is a TypeError.
TMCMError(status) == IF status \in STATUS THEN "TypeError" ELSE "KeyError"

\* _send_cmd up to its write: the exception raised, or "".
send_cmd(w, addr, c) ==
    IF w
    THEN "AlreadyAwaitingReply"
    ELSE IF c.cmd \notin DOMAIN COMMANDS
         THEN "KeyError"
         ELSE IF Pack(addr, COMMANDS[c.cmd], c.type, c.motor, c.value) = <<>>
              THEN "StructError"
              ELSE ""

\* The frame _send_cmd writes.
Request(addr, c) ==
    Frame(Pack(addr, COMMANDS[c.cmd], c.type, c.motor, c.value))

\* Fault: the flag set before the write, so that a failed write leaves it.
FlagSetBeforeWrite(w) == TRUE

\* _waiting_for_reply after write() raised: the flag is set after the write.
FlagOnWriteError(w) == w

\* Fault: the flag reset after the read with no try / finally.
ReadNoFinally(w, ok) == IF ok THEN FALSE ELSE w

\* Fault: the flag reset in an except clause only.
ReadResetOnErrorOnly(w, ok) == IF ok THEN w ELSE FALSE

\* _waiting_for_reply after read(9) returned (ok) or raised: the finally
\* clause.
ReadFinally(w, ok) == FALSE

\* Fault: _get_reply without its check of readAll()'s result.
get_reply_ignoring_extra(dd, d2) ==
    IF Unpack(dd).chksum # Checksum(SubSeq(dd, 1, 8))
    THEN "Checksum"
    ELSE IF Unpack(dd).status < 100
         THEN TMCMError(Unpack(dd).status)
         ELSE ""

\* Fault: the checksum tested before readAll()'s result.
get_reply_checksum_first(dd, d2) ==
    IF Unpack(dd).chksum # Checksum(SubSeq(dd, 1, 8))
    THEN "Checksum"
    ELSE IF Len(d2) > 0
         THEN "ExtraData"
         ELSE IF Unpack(dd).status < 100
              THEN TMCMError(Unpack(dd).status)
              ELSE ""

\* Fault: only the statuses of the STATUS table raise.
get_reply_known_status_only(dd, d2) ==
    IF Len(d2) > 0
    THEN "ExtraData"
    ELSE IF Unpack(dd).chksum # Checksum(SubSeq(dd, 1, 8))
         THEN "Checksum"
         ELSE IF Unpack(dd).status \in STATUS
              THEN TMCMError(Unpack(dd).status)
              ELSE ""

\* Fault: every status but 100 raises.
get_reply_strict_status(dd, d2) ==
    IF Len(d2) > 0
    THEN "ExtraData"
    ELSE IF Unpack(dd).chksum # Checksum(SubSeq(dd, 1, 8))
         THEN "Checksum"
         ELSE IF Unpack(dd).status # 100
              THEN TMCMError(Unpack(dd).status)
              ELSE ""

\* Fault: the status tested before the checksum.
get_reply_status_first(dd, d2) ==
    IF Len(d2) > 0
    THEN "ExtraData"
    ELSE IF Unpack(dd).status < 100
         THEN TMCMError(Unpack(dd).status)
         ELSE IF Unpack(dd).chksum # Checksum(SubSeq(dd, 1, 8))
              THEN "Checksum"
              ELSE ""

\* _get_reply after read(9): dd the 9 bytes read, d2 what readAll()
\* returned; the exception raised, or "".
get_reply(dd, d2) ==
    IF Len(d2) > 0
    THEN "ExtraData"
    ELSE IF Unpack(dd).chksum # Checksum(SubSeq(dd, 1, 8))
         THEN "Checksum"
         ELSE IF Unpack(dd).status < 100
              THEN TMCMError(Unpack(dd).status)
              ELSE ""

\* The reply tuple, as integers.
Parts(dd) ==
    LET r == Unpack(dd)
    IN  <<W(r.reply_addr), W(r.module_addr), W(r.status), W(r.cmd_num),
          r.value, W(r.chksum)>>

\* Fault: a loop that swallows a keyword's failure and goes on with the
\* next keyword.
RECURSIVE set_params_continue(_, _)
set_params_continue(kw, i) ==
    IF i > Len(kw)
    THEN Raise("")
    ELSE IF kw[i].pair /\ set_param(kw[i].p, kw[i].v, FALSE).err = ""
         THEN set_param(kw[i].p, kw[i].v, FALSE)
         ELSE set_params_continue(kw, i + 1)

\* set_params: the i-th turn of its loop over kwds.values().  Unpacking an
\* integer into (param, value) is a TypeError; a 2-tuple goes to
\* set_param(param, value).  Raise("") stands for the loop's end.
set_params(kw, i) ==
    IF i > Len(kw)
    THEN Raise("")
    ELSE IF ~kw[i].pair
         THEN Raise("UnpackTypeError")
         ELSE set_param(kw[i].p, kw[i].v, FALSE)

\* The with blocks a thread inside command() is in; none for _get_reply
\* called on its own.
Depth(t) ==
    IF op[t].op = "set_params"
    THEN 2
    ELSE IF op[t].op = "_get_reply" THEN 0 ELSE 1

\* ------------------------------------------------------------ the steps

\* The call ends with exception e, leaving n with blocks.
Fail(t, e, n) ==
    /\ pc' = [pc EXCEPT ![t] = "done"]
    /\ result' = [result EXCEPT ![t] = Raised(e)]
    /\ lock' = Unwind(lock, n)

\* A thread calls a public operation and runs it up to the lock.
Invoke(t, c) ==
    /\ pc[t] = "idle"
    /\ ncalls < MaxCalls
    /\ ncalls' = ncalls + 1
    /\ op' = [op EXCEPT ![t] = c]
    /\ IF c.op = "set_params"
       THEN /\ pc' = [pc EXCEPT ![t] = "sp_lock"]
            /\ idx' = [idx EXCEPT ![t] = 1]
            /\ UNCHANGED <<cmd, result>>
       ELSE LET o == Prepare(c)
            IN  IF o.err # ""
                THEN /\ pc' = [pc EXCEPT ![t] = "done"]
                     /\ result' = [result EXCEPT ![t] = Raised(o.err)]
                     /\ UNCHANGED <<cmd, idx>>
                ELSE /\ pc' = [pc EXCEPT ![t] = "cmd_lock"]
                     /\ cmd' = [cmd EXCEPT ![t] = o]
                     /\ UNCHANGED <<idx, result>>
    /\ UNCHANGED <<sent, d, lock, waiting, module_addr, wire, rxbuf, dev>>

\* with self.lock: of command() and of set_params().
Acquire(t) ==
    /\ pc[t] \in {"cmd_lock", "sp_lock"}
    /\ CanEnter(lock, t)
    /\ lock' = Enter(lock, t)
    /\ pc' = [pc EXCEPT ![t] = IF pc[t] = "sp_lock" THEN "sp_iter"
                                                    ELSE "cmd_send"]
    /\ UNCHANGED <<op, cmd, idx, sent, d, result, waiting, module_addr, wire,
                   rxbuf, dev, ncalls>>

\* One turn of set_params' loop, up to set_param's call of command().
SetParamsStep(t) ==
    /\ pc[t] = "sp_iter"
    /\ LET o == set_params(op[t].kw, idx[t])
       IN  IF o.err # ""
           THEN Fail(t, o.err, 1) /\ UNCHANGED cmd
           ELSE IF o.cmd = ""
                THEN /\ pc' = [pc EXCEPT ![t] = "done"]
                     /\ result' = [result EXCEPT ![t] = Returned(<<>>)]
                     /\ lock' = ExitOnReturn(lock)
                     /\ UNCHANGED cmd
                ELSE /\ pc' = [pc EXCEPT ![t] = "cmd_lock"]
                     /\ cmd' = [cmd EXCEPT ![t] = o]
                     /\ UNCHANGED <<result, lock>>
    /\ UNCHANGED <<op, idx, sent, d, waiting, module_addr, wire, rxbuf, dev,
                   ncalls>>

\* Fault: write()'s exception swallowed, the reply awaited all the same.
SendCmdReadsAfterWriteError(t) ==
    /\ pc[t] = "cmd_send"
    /\ \E writeFails \in BOOLEAN :
          LET e == send_cmd(waiting, module_addr, cmd[t])
          IN  IF e # ""
              THEN /\ Fail(t, e, Depth(t))
                   /\ UNCHANGED <<sent, waiting, wire>>
              ELSE IF writeFails
                   THEN /\ waiting' = TRUE
                        /\ pc' = [pc EXCEPT ![t] = "cmd_read"]
                        /\ UNCHANGED <<sent, wire, result, lock>>
                   ELSE /\ wire' = Append(wire, Request(module_addr, cmd[t]))
                        /\ sent' = [sent EXCEPT
                               ![t] = Append(@, Request(module_addr, cmd[t]))]
                        /\ waiting' = TRUE
                        /\ pc' = [pc EXCEPT ![t] = "cmd_read"]
                        /\ UNCHANGED <<result, lock>>
    /\ UNCHANGED <<op, cmd, idx, d, module_addr, rxbuf, dev, ncalls>>

\* _send_cmd; write() may raise.
SendCmd(t) ==
    /\ pc[t] = "cmd_send"
    /\ \E writeFails \in BOOLEAN :
          LET e == send_cmd(waiting, module_addr, cmd[t])
          IN  IF e # ""
              THEN /\ Fail(t, e, Depth(t))
                   /\ UNCHANGED <<sent, waiting, wire>>
              ELSE IF writeFails
                   THEN /\ Fail(t, "WriteError", Depth(t))
                        /\ waiting' = FlagOnWriteError(waiting)
                        /\ UNCHANGED <<sent, wire>>
                   ELSE /\ wire' = Append(wire, Request(module_addr, cmd[t]))
                        /\ sent' = [sent EXCEPT
                               ![t] = Append(@, Request(module_addr, cmd[t]))]
                        /\ waiting' = TRUE
                        /\ pc' = [pc EXCEPT ![t] = "cmd_read"]
                        /\ UNCHANGED <<result, lock>>
    /\ UNCHANGED <<op, cmd, idx, d, module_addr, rxbuf, dev, ncalls>>

\* Fault: a timeout of read(9) answered by sending the command again.
ReadReplyRetry(t) ==
    /\ pc[t] = "cmd_read"
    /\ IF ~waiting
       THEN /\ Fail(t, "NoReplyExpected", Depth(t))
            /\ UNCHANGED <<d, waiting, rxbuf>>
       ELSE IF ReadReturns(rxbuf, 9)
            THEN /\ d' = [d EXCEPT ![t] = ReadData(rxbuf, 9)]
                 /\ rxbuf' = ReadRest(rxbuf, 9)
                 /\ waiting' = ReadFinally(waiting, TRUE)
                 /\ pc' = [pc EXCEPT ![t] = "cmd_drain"]
                 /\ UNCHANGED <<result, lock>>
            ELSE /\ rxbuf' = <<>>
                 /\ waiting' = ReadFinally(waiting, FALSE)
                 /\ pc' = [pc EXCEPT ![t] = "cmd_send"]
                 /\ UNCHANGED <<d, result, lock>>
    /\ UNCHANGED <<op, cmd, idx, sent, module_addr, wire, dev, ncalls>>

\* Fault: _get_reply without its test of the flag.
ReadReplyUnchecked(t) ==
    /\ pc[t] = "cmd_read"
    /\ IF ReadReturns(rxbuf, 9)
       THEN /\ d' = [d EXCEPT ![t] = ReadData(rxbuf, 9)]
            /\ rxbuf' = ReadRest(rxbuf, 9)
            /\ waiting' = ReadFinally(waiting, TRUE)
            /\ pc' = [pc EXCEPT ![t] = "cmd_drain"]
            /\ UNCHANGED <<result, lock>>
       ELSE /\ rxbuf' = <<>>
            /\ waiting' = ReadFinally(waiting, FALSE)
            /\ Fail(t, "TimeoutError", Depth(t))
            /\ UNCHANGED d
    /\ UNCHANGED <<op, cmd, idx, sent, module_addr, wire, dev, ncalls>>

\* _get_reply up to the end of read(9): 9 bytes, or the timeout.
ReadReply(t) ==
    /\ pc[t] = "cmd_read"
    /\ IF ~waiting
       THEN /\ Fail(t, "NoReplyExpected", Depth(t))
            /\ UNCHANGED <<d, waiting, rxbuf>>
       ELSE IF ReadReturns(rxbuf, 9)
            THEN /\ d' = [d EXCEPT ![t] = ReadData(rxbuf, 9)]
                 /\ rxbuf' = ReadRest(rxbuf, 9)
                 /\ waiting' = ReadFinally(waiting, TRUE)
                 /\ pc' = [pc EXCEPT ![t] = "cmd_drain"]
                 /\ UNCHANGED <<result, lock>>
            ELSE /\ rxbuf' = <<>>
                 /\ waiting' = ReadFinally(waiting, FALSE)
                 /\ Fail(t, "TimeoutError", Depth(t))
                 /\ UNCHANGED d
    /\ UNCHANGED <<op, cmd, idx, sent, module_addr, wire, dev, ncalls>>

\* Fault: the buffer looked at and not consumed.
CheckReplyKeepsBuffer(t) ==
    /\ pc[t] = "cmd_drain"
    /\ rxbuf' = rxbuf
    /\ LET e == get_reply(d[t], ReadAll(rxbuf))
       IN  IF e # ""
           THEN Fail(t, e, Depth(t)) /\ UNCHANGED idx
           ELSE /\ lock' = ExitOnReturn(lock)
                /\ IF op[t].op = "set_params"
                   THEN /\ idx' = [idx EXCEPT ![t] = @ + 1]
                        /\ pc' = [pc EXCEPT ![t] = "sp_iter"]
                        /\ UNCHANGED result
                   ELSE /\ pc' = [pc EXCEPT ![t] = "done"]
                        /\ result' =
                              [result EXCEPT ![t] = Returned(
                                  CASE cmd[t].ret = "value" ->
                                           <<Unpack(d[t]).value>>
                                    [] cmd[t].ret = "parts" -> Parts(d[t])
                                    [] OTHER -> <<>>)]
                        /\ UNCHANGED idx
    /\ UNCHANGED <<op, cmd, sent, d, waiting, module_addr, wire, dev, ncalls>>

\* _get_reply from readAll() on, and command()'s return to its caller.
CheckReply(t) ==
    /\ pc[t] = "cmd_drain"
    /\ rxbuf' = <<>>
    /\ LET e == get_reply(d[t], ReadAll(rxbuf))
       IN  IF e # ""
           THEN Fail(t, e, Depth(t)) /\ UNCHANGED idx
           ELSE /\ lock' = ExitOnReturn(lock)
                /\ IF op[t].op = "set_params"
                   THEN /\ idx' = [idx EXCEPT ![t] = @ + 1]
                        /\ pc' = [pc EXCEPT ![t] = "sp_iter"]
                        /\ UNCHANGED result
                   ELSE /\ pc' = [pc EXCEPT ![t] = "done"]
                        /\ result' =
                              [result EXCEPT ![t] = Returned(
                                  CASE cmd[t].ret = "value" ->
                                           <<Unpack(d[t]).value>>
                                    [] cmd[t].ret = "parts" -> Parts(d[t])
                                    [] OTHER -> <<>>)]
                        /\ UNCHANGED idx
    /\ UNCHANGED <<op, cmd, sent, d, waiting, module_addr, wire, dev, ncalls>>

\* The caller takes the result; the thread is free for its next call.
Return(t) ==
    /\ pc[t] = "done"
    /\ pc' = [pc EXCEPT ![t] = "idle"]
    /\ op' = [op EXCEPT ![t] = NoCall]
    /\ cmd' = [cmd EXCEPT ![t] = Raise("")]
    /\ idx' = [idx EXCEPT ![t] = 0]
    /\ sent' = [sent EXCEPT ![t] = <<>>]
    /\ d' = [d EXCEPT ![t] = <<>>]
    /\ result' = [result EXCEPT ![t] = NoResult]
    /\ UNCHANGED <<lock, waiting, module_addr, wire, rxbuf, dev, ncalls>>

\* ------------------------------------------------------------ the runs

\* The calls the threads make: every kind of public operation that differs
\* in its locking or in where it can fail (the operations not listed are,
\* like stop, a call of command() with fixed arguments).
Calls ==
    { Op("get_param", "maximum_current", 0, W(0), FALSE, <<>>),
      Op("get_param", "bogus", 0, W(0), FALSE, <<>>),
      Op("set_param", "maximum_speed", 0, W(50), FALSE, <<>>),
      Op("set_param", "maximum_current", 0, W(150), FALSE, <<>>),
      Op("set_param", "minimum_speed", 0, W(10), FALSE, <<>>),
      Op("command", "bogus", 0, W(0), FALSE, <<>>),
      Op("command", "sap", 4, Two32, FALSE, <<>>),
      Op("rotate", "", 0, W(2048), FALSE, <<>>),
      Op("stop", "", 0, W(0), FALSE, <<>>),
      SetParams(<<>>),
      SetParams(<<KwInt("maximum_speed", W(50))>>),
      SetParams(<<KwPair("a", "maximum_speed", W(50)),
                  KwPair("b", "maximum_current", W(60))>>),
      SetParams(<<KwPair("a", "maximum_speed", W(50)),
                  KwPair("b", "maximum_current", W(150))>>),
      SetParams(<<KwPair("a", "maximum_current", W(150)),
                  KwPair("b", "maximum_speed", W(50))>>) }

Next ==
    \/ \E t \in Threads, c \in Calls : Invoke(t, c)
    \/ \E t \in Threads : Acquire(t)
    \/ \E t \in Threads : SetParamsStep(t)
    \/ \E t \in Threads : SendCmd(t)
    \/ \E t \in Threads : ReadReply(t)
    \/ \E t \in Threads : CheckReply(t)
    \/ \E t \in Threads : Return(t)
    \/ DeviceReply

Spec == Init /\ [][Next]_vars

\* ------------------------------------------------------------ the claims

\* Thread t is inside command(), between _send_cmd and the end of _get_reply.
InCommand(t) == pc[t] \in {"cmd_send", "cmd_read", "cmd_drain"}

\* Thread t has written its frame and its read(9) / readAll() has not ended.
OpenExchange(t) == pc[t] \in {"cmd_read", "cmd_drain"}

\* This step is a call of the transport by thread u: its write, the end
\* of its read(9) (9 bytes or the timeout), its readAll().
TransportStep(u) ==
    \/ pc[u] = "cmd_send" /\ pc'[u] = "cmd_read"
    \/ pc[u] = "cmd_read" /\ pc'[u] # "cmd_read" /\ waiting
    \/ pc[u] = "cmd_drain" /\ pc'[u] # "cmd_drain"

\* C1: the transport sees complete exchanges one after the other: while a
\* thread has written its frame and its read(9) / readAll() has not ended,
\* no other thread writes to or reads from the transport.
C1_ExchangesDoNotInterleave ==
    [][\A t, u \in Threads :
          (t # u /\ OpenExchange(t)) => ~TransportStep(u)]_vars

\* A get_param has its exchange open while another get_param, its name
\* resolved, waits for the lock.
C1_Witness ==
    \E t, u \in Threads :
        /\ t # u
        /\ op[t].op = "get_param" /\ pc[t] = "cmd_drain"
        /\ op[u].op = "get_param" /\ pc[u] = "cmd_lock"

\* The frames written whose reply read has neither completed nor been
\* abandoned: those of the threads in read(9).
Outstanding == Cardinality({t \in Threads : pc[t] = "cmd_read"})

\* C2: at most one request is outstanding, and one is outstanding exactly
\* when _waiting_for_reply is True.
C2_OneOutstanding == Outstanding <= 1 /\ (Outstanding = 1 <=> waiting)

\* The second call of a run has its request outstanding.
C2_Witness ==
    \E t \in Threads : pc[t] = "cmd_read" /\ waiting /\ ncalls = 2

\* C3: when a call of command() ends, by a return or by any exception,
\* _waiting_for_reply is False, and no call of command() ends with the
\* 'previous reply has not been received yet' error.
C3_FlagResetOnCompletion ==
    [][\A t \in Threads :
          (InCommand(t) /\ ~InCommand(t)')
              => (~waiting' /\ result'[t].err # "AlreadyAwaitingReply")]_vars

\* After an exchange that failed in its reply (timeout, extra data, bad
\* checksum, error status), another thread's command() has sent its frame.
C3_Witness ==
    \E t, u \in Threads :
        /\ pc[u] = "done"
        /\ result[u].err \in {"TimeoutError", "ExtraData", "Checksum",
                              "TypeError"}
        /\ pc[t] = "cmd_read" /\ sent[t] # <<>>

\* C4: the AlreadyAwaitingReply error of _send_cmd is never raised.
C4_NeverAlreadyAwaiting ==
    \A t \in Threads : result[t].err # "AlreadyAwaitingReply"

\* Two calls have gone through _send_cmd: one has timed out, and the other
\* has returned with the late reply to it, its own frame still unanswered.
C4_Witness ==
    \E t, u \in Threads :
        /\ pc[u] = "done" /\ result[u].err = "TimeoutError"
        /\ pc[t] = "done" /\ result[t].kind = "ok"
        /\ sent[t] # <<>> /\ wire = sent[t]

\* Thread t's operation has run its first statement and has not ended.
\* (command() and set_params() begin by acquiring the lock.)
Running(t) ==
    \/ pc[t] \in {"sp_iter", "cmd_send", "cmd_read", "cmd_drain"}
    \/ pc[t] = "cmd_lock" /\ op[t].op # "command"

\* Thread t is inside the with block of command() or of set_params().
Locked(t) ==
    \/ pc[t] \in {"sp_iter", "cmd_send", "cmd_read", "cmd_drain"}
    \/ pc[t] = "cmd_lock" /\ op[t].op = "set_params"

\* This step is a step of the operation thread u has begun.
OpStep(u) == pc[u] \notin {"idle", "done"} /\ pc'[u] # pc[u]

WithBlocks(t) ==
    CASE pc[t] \in {"cmd_send", "cmd_read", "cmd_drain"} -> Depth(t)
      [] pc[t] = "sp_iter" -> 1
      [] pc[t] = "cmd_lock" /\ op[t].op = "set_params" -> 1
      [] OTHER -> 0

HoldCount(t) == IF lock.owner = t THEN lock.count ELSE 0

\* C6: the lock is released on every exit path: a thread holds the lock as
\* many times as it is inside with blocks, so none after its operation has
\* returned or raised, and the lock is free when no thread is inside one.
C6_LockReleased ==
    /\ \A t \in Threads : HoldCount(t) = WithBlocks(t)
    /\ lock.owner = 0 <=> lock.count = 0

\* A set_params has raised out of its second exchange, through both with
\* blocks, and the lock is free.
C6_Witness ==
    \E t \in Threads :
        /\ pc[t] = "done" /\ op[t].op = "set_params"
        /\ result[t].kind = "raise" /\ Len(sent[t]) = 2
        /\ lock.owner = 0

\* C7: from the first write of a set_params call to the call's end, no
\* other thread writes to or reads from the transport.
C7_SetParamsAtomic ==
    [][\A t, u \in Threads :
          (/\ t # u
           /\ op[t].op = "set_params"
           /\ sent[t] # <<>>
           /\ pc[t] # "done") => ~TransportStep(u)]_vars

\* A set_params has its second exchange open while another thread's
\* set_param waits for the lock.
C7_Witness ==
    \E t, u \in Threads :
        /\ t # u
        /\ op[t].op = "set_params" /\ Len(sent[t]) = 2 /\ pc[t] = "cmd_read"
        /\ op[u].op = "set_param" /\ pc[u] = "cmd_lock"

\* The keywords name writable parameters and give them integer values.
NamesToValues(kw) ==
    \A i \in 1..Len(kw) :
        /\ ~kw[i].pair
        /\ kw[i].key \in DOMAIN PARAMETERS
        /\ PARAMETERS[kw[i].key] >= 0

\* The 'sap' frame that sets parameter name to value v.
SapFrame(name, v) ==
    Frame(Pack(module_addr, COMMANDS["sap"], PARAMETERS[name], 0, v))

\* C8 as stated: set_params called with n writable parameter names and
\* their values makes n 'sap' exchanges, one per entry, each with the
\* entry's parameter code and value (unless an exchange fails).
C8_OneSapPerEntry ==
    \A t \in Threads :
        (/\ pc[t] = "done"
         /\ op[t].op = "set_params"
         /\ NamesToValues(op[t].kw)
         /\ result[t].err \notin {"WriteError", "TimeoutError", "ExtraData",
                                  "Checksum", "TypeError"})
            => /\ result[t].kind = "ok"
               /\ Len(sent[t]) = Len(op[t].kw)
               /\ \A i \in 1..Len(sent[t]) :
                     sent[t][i] = SapFrame(op[t].kw[i].key, op[t].kw[i].v)

\* The keywords of set_params whose exchange has succeeded, given the
\* frames written and how the call ended.
Succeeded(t) ==
    IF result[t].kind = "ok"
          \/ result[t].err \in {"UnpackTypeError", "ReadOnly", "Safety",
                                "StructError", "WriteError"}
    THEN Len(sent[t])
    ELSE Len(sent[t]) - 1

\* C9: the frames a set_params call has written are the 'sap' frames of
\* its first keywords, in order, and nothing else (no compensating frame,
\* no write after the one that failed); when the call has raised, the lock
\* is released and, no other call having been made, the device still holds
\* the values of the writes that succeeded.
C9_NoRollback ==
    \A t \in Threads :
        op[t].op = "set_params" =>
            LET kw == op[t].kw
            IN  /\ Len(sent[t]) <= Len(kw)
                /\ \A j \in 1..Len(sent[t]) :
                      /\ kw[j].pair
                      /\ set_param(kw[j].p, kw[j].v, FALSE).err = ""
                      /\ sent[t][j] = SapFrame(kw[j].p, kw[j].v)
                /\ (pc[t] = "done" /\ result[t].kind = "raise") =>
                      /\ lock.owner # t
                      /\ (ncalls = 1 /\ wire = <<>>) =>
                            \A j \in 1..Succeeded(t) :
                                PARAMETERS[kw[j].p] \in DevCodes
                                    => dev.param[PARAMETERS[kw[j].p]] = kw[j].v

\* A set_params has raised on its second keyword (the safety guard) after
\* the exchange of its first, whose value the device holds.
C9_Witness ==
    \E t \in Threads :
        /\ pc[t] = "done" /\ op[t].op = "set_params"
        /\ result[t].err = "Safety" /\ Len(sent[t]) = 1
        /\ ncalls = 1 /\ wire = <<>>
        /\ dev.param[PARAMETERS["maximum_speed"]] = W(50)
        /\ lock.owner = 0

\* C10: when bytes are buffered after the 9 reply bytes have been read,
\* command() drains them and fails with the extra-data error, whatever the
\* 9 bytes are.
C10_ExtraDataFails ==
    [][\A t \in Threads :
          (pc[t] = "cmd_drain" /\ pc'[t] # "cmd_drain" /\ rxbuf # <<>>)
              => /\ rxbuf' = <<>>
                 /\ pc'[t] = "done"
                 /\ result'[t] = Raised("ExtraData")]_vars

\* A call has failed with the extra-data error on a reply that has a valid
\* checksum and a success status.
C10_Witness ==
    \E t \in Threads :
        /\ pc[t] = "done" /\ result[t].err = "ExtraData"
        /\ Unpack(d[t]).chksum = Checksum(SubSeq(d[t], 1, 8))
        /\ Unpack(d[t]).status >= 100
        /\ rxbuf = <<>>


\* ------------------------------------------------ one caller, every input
\* A single thread calls the operations one after the other, each call on a
\* quiet line, with arguments at and around the limits the code tests; the
\* device answers with any status and the line may corrupt, extend or lose
\* any reply.

\* Integers at and around the limits of the two struct formats and of
\* move()'s assertion: -2^32 - 1, -2^32, -2^31 - 1, -2^31, -1, 0, 1000,
\* 2^31 - 1, 2^31, 2^32 - 1, 2^32.
Values ==
    { <<-Half - 1, Half - 1>>, MinusTwo32, <<-32769, Half - 1>>,
      <<-32768, 0>>, W(-1), W(0), W(1000), <<32767, Half - 1>>,
      <<32768, 0>>, <<Half - 1, Half - 1>>, Two32 }

Velocities == {W(-2048), W(-2047), W(-1), W(0), W(1), W(2047), W(2048)}

\* Fault: __init__ with its assertion only (chr() accepting any integer).
init_assert_only(addr) == IF addr > 0 THEN "" ELSE "AssertionError"

\* TMCM140.__init__(port, baudrate, module_addr): the exception it raises,
\* or "".  It asserts module_addr > 0, and chr(module_addr + 64) raises
\* ValueError unless module_addr + 64 < 256.
init(addr) ==
    IF ~(addr > 0)
    THEN "AssertionError"
    ELSE IF ~(0 <= addr + 64 /\ addr + 64 < 256) THEN "ValueError" ELSE ""

\* The module addresses sessions are asked for.
AddrArgs == {-1, 0, 1, 191, 192, 255, 256}

\* The module addresses of the sessions constructed.
SeqModuleAddrs == {a \in AddrArgs : init(a) = ""}

SeqStatuses == {1, 2, 3, 4, 5, 6, 7, 100}

SeqReplyKinds == {"ok", "badsum", "extra", "lost"}

SeqCalls ==
    {Op("rotate", "", 0, v, FALSE, <<>>) : v \in Velocities}
    \cup {Op("move", "", 0, v, r, <<>>) : v \in Values, r \in BOOLEAN}
    \cup {Op("move", "", 0, v, FALSE, <<vel>>) :
              v \in {W(0), Two32}, vel \in Velocities}
    \cup {Op("command", "sap", 4, v, FALSE, <<>>) : v \in Values}
    \cup {Op("command", "gap", 256, W(0), FALSE, <<>>),
          Op("command", "gap", 1, W(0), FALSE, <<W(256)>>),
          Op("command", "mvp", 255, W(7), FALSE, <<W(255)>>),
          Op("command", "bogus", 0, W(0), FALSE, <<>>)}
    \cup {Op("set_param", n, 0, W(150), FALSE, <<>>) : n \in DOMAIN PARAMETERS}
    \cup {Op("set_param", "maximum_speed", 0, W(10), FALSE, <<>>)}
    \cup {Op("set_param", "maximum_current", 0, v, f, <<>>) :
              v \in {W(100), W(101), W(150)}, f \in BOOLEAN}
    \cup {Op("set_param", "bogus", 0, W(10), FALSE, <<>>)}
    \cup {Op("get_param", n, 0, W(0), FALSE, <<>>) :
              n \in DOMAIN PARAMETERS \cup {"bogus"}}
    \cup {Op("getitem", n, 0, W(0), FALSE, <<>>) :
              n \in {"maximum_current", "minimum_speed", "bogus"}}
    \cup {Op("setitem", "maximum_current", 0, v, FALSE, <<>>) :
              v \in {W(100), W(150)}}
    \cup {Op("setitem", n, 0, W(150), FALSE, <<>>) :
              n \in {"maximum_speed", "minimum_speed", "bogus"}}
    \cup {Op("get_global", n, 0, W(0), FALSE, <<>>) :
              n \in DOMAIN GLOBAL_PARAMETERS \cup {"bogus"}}
    \cup {Op("set_global", n, 0, W(7), FALSE, <<>>) :
              n \in DOMAIN GLOBAL_PARAMETERS \cup {"bogus"}}
    \cup {Op("start_program", "", 0, W(0), FALSE, a) :
              a \in {<<>>, <<W(0)>>, <<W(1000)>>}}
    \cup {Op("start_download", "", 0, a, FALSE, <<>>) :
              a \in {W(0), W(1000)}}
    \cup {Op("stop_program", "", 0, W(0), FALSE, <<>>),
          Op("stop_download", "", 0, W(0), FALSE, <<>>),
          Op("program_status", "", 0, W(0), FALSE, <<>>)}
    \cup {Op("stop", "", 0, W(0), FALSE, <<>>),
          SetParams(<<KwPair("a", "maximum_speed", W(50))>>)}

SeqInit ==
    /\ pc = [t \in Threads |-> "idle"]
    /\ op = [t \in Threads |-> NoCall]
    /\ cmd = [t \in Threads |-> Raise("")]
    /\ idx = [t \in Threads |-> 0]
    /\ sent = [t \in Threads |-> <<>>]
    /\ d = [t \in Threads |-> <<>>]
    /\ result = [t \in Threads |-> NoResult]
    /\ lock = [owner |-> 0, count |-> 0]
    /\ waiting = FALSE
    /\ module_addr \in SeqModuleAddrs
    /\ wire = <<>>
    /\ rxbuf = <<>>
    /\ dev = [param |-> [c \in DevCodes |-> W(0)], prog |-> 0]
    /\ ncalls = 0

\* The caller's next call, made when the line is quiet.
SeqInvoke(c) == wire = <<>> /\ rxbuf = <<>> /\ Invoke(1, c)

\* The device answers the frame with any status; the line delivers the
\* reply, corrupts it, adds a byte to it or loses it.
DeviceReplyAny ==
    /\ wire # <<>>
    /\ \E kind \in SeqReplyKinds, status \in SeqStatuses :
          LET f == Head(wire)
          IN  /\ rxbuf' = rxbuf \o DevReply(dev, f, kind, status)
              /\ dev' = IF status < 100 THEN dev ELSE DevApply(dev, f)
    /\ wire' = Tail(wire)
    /\ UNCHANGED <<pc, op, cmd, idx, sent, d, result, lock, waiting,
                   module_addr, ncalls>>

SeqNext ==
    \/ \E c \in SeqCalls : SeqInvoke(c)
    \/ Acquire(1)
    \/ SetParamsStep(1)
    \/ SendCmd(1)
    \/ ReadReply(1)
    \/ CheckReply(1)
    \/ Return(1)
    \/ DeviceReplyAny

SeqSpec == SeqInit /\ [][SeqNext]_vars

\* --------------------------------------------------- the claims, continued

\* C11 as stated: a command() call issued while bytes are buffered on the
\* transport fails with the extra-data error and writes no frame.
C11_FailsBeforeSending ==
    [][\A t \in Threads :
          (pc[t] = "cmd_send" /\ pc'[t] # "cmd_send" /\ rxbuf # <<>>)
              => /\ pc'[t] = "done"
                 /\ result'[t] = Raised("ExtraData")
                 /\ wire' = wire]_vars

\* The sum of the first 8 bytes of a 9-byte frame, mod 256.
Sum8(f) == (f[1] + f[2] + f[3] + f[4] + f[5] + f[6] + f[7] + f[8]) % 256

\* This step is the end of thread t's _get_reply, readAll() having found
\* nothing buffered after the 9 bytes.
ReplyChecked(t) ==
    pc[t] = "cmd_drain" /\ pc'[t] # "cmd_drain" /\ rxbuf = <<>>

\* C12: a 9-byte reply, nothing buffered after it, whose last byte is not
\* the sum of its first 8 bytes mod 256 ends command() with the checksum
\* error, whatever its status byte; none of its fields is returned.
C12_BadChecksumFails ==
    [][\A t \in Threads :
          (ReplyChecked(t) /\ d[t][9] # Sum8(d[t]))
              => /\ pc'[t] = "done"
                 /\ result'[t] = Raised("Checksum")]_vars

\* A call has failed with the checksum error on a reply whose status byte
\* is an error status of the STATUS table.
C12_Witness ==
    \E t \in Threads :
        /\ pc[t] = "done" /\ result[t] = Raised("Checksum")
        /\ d[t][9] # Sum8(d[t])
        /\ d[t][3] \in STATUS

\* C13 as stated: a reply with a valid checksum and a status in 1..6 ends
\* command() with a TMCMError (carrying the status and its STATUS message).
C13_StatusRaisesTMCMError ==
    [][\A t \in Threads :
          (ReplyChecked(t) /\ d[t][9] = Sum8(d[t]) /\ d[t][3] \in 1..6)
              => /\ pc'[t] = "done"
                 /\ result'[t] = Raised("TMCMError")]_vars

\* The frames written and not yet answered, and those the calls in
\* progress have written.
Written ==
    {wire[i] : i \in 1..Len(wire)}
        \cup UNION {{sent[t][i] : i \in 1..Len(sent[t])} : t \in Threads}

\* C14: every frame written to the transport is 9 bytes long, goes out in
\* one write, and has the sum of its first 8 bytes mod 256 as ninth byte.
C14_FramesWellFormed ==
    \A f \in Written :
        /\ Len(f) = 9
        /\ \A i \in 1..9 : f[i] \in 0..255
        /\ f[9] = Sum8(f)

\* A frame is written whose first 8 bytes sum to 256 or more.
C14_Witness ==
    \E t \in Threads :
        /\ pc[t] = "cmd_read" /\ Len(sent[t]) = 1
        /\ SumBytes(SubSeq(sent[t][1], 1, 8)) >= 256
        /\ sent[t][1][9] < 255

\* Thread t's current command() call has written its frame.
FrameWritten(t) == pc[t] \in {"cmd_read", "cmd_drain"}

\* The frame thread t's current command() call has written.
LastFrame(t) == sent[t][Len(sent[t])]

\* C15 as stated: decoding the 9 bytes the encoder produced gives back the
\* address, opcode, type, motor and value that were encoded.
C15_RoundTrip ==
    \A t \in Threads :
        FrameWritten(t) =>
            LET r == Unpack(LastFrame(t))
            IN  /\ r.reply_addr = module_addr
                /\ r.module_addr = COMMANDS[cmd[t].cmd]
                /\ r.status = cmd[t].type
                /\ r.cmd_num = cmd[t].motor
                /\ r.value = cmd[t].value

\* -2^31 <= v < 2^32
Packable(v) == WLeq(<<-32768, 0>>, v) /\ WLess(v, Two32)

\* This step is thread t's _send_cmd, its command known and its address,
\* type and motor being bytes.
Sends(t) ==
    /\ pc[t] = "cmd_send" /\ pc'[t] # "cmd_send"
    /\ cmd[t].cmd \in DOMAIN COMMANDS
    /\ module_addr \in 0..255
    /\ cmd[t].type \in 0..255
    /\ cmd[t].motor \in 0..255

\* C16: for a value in [-2^31, 2^32) the four value bytes of the frame
\* written are the big-endian bytes of value mod 2^32; for a value outside
\* that range the call fails, nothing is written and _waiting_for_reply is
\* False.
C16_ValuePacking ==
    [][\A t \in Threads :
          Sends(t) =>
              LET v == cmd[t].value
              IN  IF Packable(v)
                  THEN \/ /\ result'[t] = Raised("WriteError")
                          /\ wire' = wire
                       \/ /\ Len(wire') = Len(wire) + 1
                          /\ LET f == wire'[Len(wire')]
                             IN  /\ \A i \in 5..8 : f[i] \in 0..255
                                 /\ f[5] * 256 + f[6] = v[1] % Half
                                 /\ f[7] * 256 + f[8] = v[2]
                  ELSE /\ pc'[t] = "done"
                       /\ result'[t].kind = "raise"
                       /\ wire' = wire
                       /\ sent' = sent
                       /\ ~waiting']_vars

\* The value -2^31 has been written as 80 00 00 00.
C16_Witness ==
    \E t \in Threads :
        /\ pc[t] = "cmd_read"
        /\ cmd[t].value = <<-32768, 0>>
        /\ SubSeq(LastFrame(t), 5, 8) = <<128, 0, 0, 0>>

\* C17 as stated: move(position, relative) with -2^32 <= position < 2^32
\* writes one 'mvp' frame (opcode 4) with type 1 if relative else 0 and
\* motor 0 (unless the write itself fails); a position outside the range
\* fails with nothing written.
C17_MoveWritesOneFrame ==
    \A t \in Threads :
        (/\ pc[t] = "done"
         /\ op[t].op = "move"
         /\ op[t].aux = <<>>
         /\ result[t].err # "WriteError") =>
            IF WLeq(MinusTwo32, op[t].v) /\ WLess(op[t].v, Two32)
            THEN /\ Len(sent[t]) = 1
                 /\ sent[t][1][2] = 4
                 /\ sent[t][1][3] = (IF op[t].flag THEN 1 ELSE 0)
                 /\ sent[t][1][4] = 0
            ELSE /\ sent[t] = <<>>
                 /\ result[t].kind = "raise"

\* The integer a pair stands for, when it is small.
Small(v) == v[1] * Half + v[2]

\* C18: rotate(v) with |v| <= 2047 writes one frame (unless the write
\* itself fails): opcode 2 ('rol') and value -v when v < 0, opcode 1
\* ('ror') and value v when v >= 0, type 0 and motor 0; with |v| > 2047 it
\* fails with the assertion error and writes nothing.
C18_Rotate ==
    \A t \in Threads :
        (pc[t] = "done" /\ op[t].op = "rotate") =>
            LET v == Small(op[t].v)
            IN  IF -2047 <= v /\ v <= 2047
                THEN \/ result[t] = Raised("WriteError") /\ sent[t] = <<>>
                     \/ /\ Len(sent[t]) = 1
                        /\ SubSeq(sent[t][1], 1, 6) =
                               <<module_addr, IF v < 0 THEN 2 ELSE 1, 0, 0, 0, 0>>
                        /\ sent[t][1][7] * 256 + sent[t][1][8] =
                               (IF v < 0 THEN -v ELSE v)
                ELSE /\ result[t] = Raised("AssertionError")
                     /\ sent[t] = <<>>

\* rotate(-2047) has written a 'rol' frame with value 2047.
C18_Witness ==
    \E t \in Threads :
        /\ pc[t] = "done" /\ op[t].op = "rotate" /\ op[t].v = W(-2047)
        /\ Len(sent[t]) = 1
        /\ sent[t][1][2] = 2
        /\ SubSeq(sent[t][1], 5, 8) = <<0, 0, 7, 255>>

\* This step is thread t's call of operation o.
Calling(t, o) == pc[t] = "idle" /\ pc'[t] # "idle" /\ op'[t].op = o

\* The call thread t makes in this step ends in it with exception e, and
\* leaves the transport, _waiting_for_reply and the device as they were.
FailsUntouched(t, e) ==
    /\ pc'[t] = "done"
    /\ result'[t] = Raised(e)
    /\ sent'[t] = <<>>
    /\ UNCHANGED <<wire, rxbuf, waiting, dev>>

\* C19 as stated: move() with a velocity that is not None fails with
\* NotImplementedError, writes no frame and leaves the transport and
\* _waiting_for_reply unchanged.
C19_Original ==
    [][\A t \in Threads :
          (Calling(t, "move") /\ op'[t].aux # <<>>)
              => FailsUntouched(t, "NotImplementedError")]_vars

\* C19 as amended: move() with a velocity that is not None writes no frame
\* and leaves the transport and _waiting_for_reply unchanged; it fails with
\* NotImplementedError when -2^32 <= pos < 2^32 and 0 <= velocity < 2048,
\* and with the assertion error otherwise.
C19_VelocityRejected ==
    [][\A t \in Threads :
          (Calling(t, "move") /\ op'[t].aux # <<>>)
              => LET pos == op'[t].v
                     vel == Small(op'[t].aux[1])
                 IN  FailsUntouched(t,
                         IF /\ WLeq(MinusTwo32, pos) /\ WLess(pos, Two32)
                            /\ 0 <= vel /\ vel < 2048
                         THEN "NotImplementedError"
                         ELSE "AssertionError")]_vars

\* move(0, velocity=2047) has failed with NotImplementedError, nothing
\* written.
C19_Witness ==
    \E t \in Threads :
        /\ pc[t] = "done" /\ op[t].op = "move"
        /\ op[t].v = W(0) /\ op[t].aux = <<W(2047)>>
        /\ result[t] = Raised("NotImplementedError")
        /\ sent[t] = <<>> /\ wire = <<>> /\ ~waiting

\* C20: set_param on a parameter whose code is negative (minimum_speed,
\* acceleration, driver_error_flags, absolute_encoder_value) fails with the
\* read-only error, writes no frame and leaves _waiting_for_reply and the
\* device unchanged; on a parameter whose code is >= 0 it is not rejected
\* as read-only.
C20_ReadOnlyRejected ==
    /\ []({n \in DOMAIN PARAMETERS : PARAMETERS[n] < 0}
              = {"minimum_speed", "acceleration", "driver_error_flags",
                 "absolute_encoder_value"})
    /\ [][\A t \in Threads :
             (Calling(t, "set_param") /\ op'[t].name \in DOMAIN PARAMETERS)
                 => IF PARAMETERS[op'[t].name] < 0
                    THEN FailsUntouched(t, "ReadOnly")
                    ELSE result'[t].err # "ReadOnly"]_vars
    /\ [](\A t \in Threads : (/\ op[t].op = "set_param"
              /\ op[t].name \in DOMAIN PARAMETERS
              /\ PARAMETERS[op[t].name] >= 0) => result[t].err # "ReadOnly")

\* set_param('driver_error_flags', 10) has failed as read-only with nothing
\* written, after a first call that set a parameter on the device.
C20_Witness ==
    \E t \in Threads :
        /\ pc[t] = "done" /\ op[t].op = "set_param"
        /\ op[t].name = "driver_error_flags"
        /\ result[t] = Raised("ReadOnly")
        /\ sent[t] = <<>> /\ wire = <<>>
        /\ dev.param[4] = W(10)

\* Frame f carries address a, opcode c, type ty, motor m and the value v
\* (its low 32 bits, big-endian), and its checksum.
FrameIs(f, a, c, ty, m, v) ==
    /\ Len(f) = 9
    /\ f[1] = a /\ f[2] = c /\ f[3] = ty /\ f[4] = m
    /\ f[5] * 256 + f[6] = v[1] % Half
    /\ f[7] * 256 + f[8] = v[2]
    /\ f[9] = Sum8(f)

\* Thread t's call has written one frame and no other, with opcode c, type
\* ty, motor 0 and value v; or the write itself failed.
WroteOnly(t, c, ty, v) ==
    \/ result[t] = Raised("WriteError") /\ sent[t] = <<>>
    \/ Len(sent[t]) = 1 /\ FrameIs(sent[t][1], module_addr, c, ty, 0, v)

\* The reply thread t has read has a valid checksum and a status >= 100.
GoodReply(t) == d[t][9] = Sum8(d[t]) /\ d[t][3] >= 100

\* In this step thread t's call returns the value field of the reply read:
\* bytes 5..8, big-endian, signed.
ReturnsValueField(t) ==
    /\ pc'[t] = "done"
    /\ result'[t].kind = "ok"
    /\ Len(result'[t].val) = 1
    /\ LET v == result'[t].val[1]
       IN  /\ v[1] \in -32768..32767
           /\ v[1] % Half = d[t][5] * 256 + d[t][6]
           /\ v[2] = d[t][7] * 256 + d[t][8]

\* The call is set_param('maximum_current', v) with v > 100 and no force.
Guarded(c) ==
    c.op = "set_param" /\ c.name = "maximum_current"
        /\ Small(c.v) > 100 /\ ~c.flag

\* C21: set_param('maximum_current', v) with v > 100 and without force
\* fails with the safety error, nothing written; with v <= 100 or with
\* force, and for every other writable parameter whatever the value, one
\* 'sap' frame (opcode 5) with the parameter's code as type and v as value
\* is written.
C21_SafetyGuard ==
    /\ [][\A t \in Threads :
             (Calling(t, "set_param") /\ Guarded(op'[t]))
                 => FailsUntouched(t, "Safety")]_vars
    /\ [](\A t \in Threads :
             (/\ pc[t] = "done" /\ op[t].op = "set_param"
              /\ op[t].name \in DOMAIN PARAMETERS
              /\ PARAMETERS[op[t].name] >= 0
              /\ ~Guarded(op[t]))
                 => /\ result[t].err # "Safety"
                    /\ WroteOnly(t, 5, PARAMETERS[op[t].name], op[t].v))

\* set_param('maximum_current', 100) has written its 'sap' frame.
C21_Witness ==
    \E t \in Threads :
        /\ pc[t] = "done"
        /\ op[t] = Op("set_param", "maximum_current", 0, W(100), FALSE, <<>>)
        /\ Len(sent[t]) = 1
        /\ SubSeq(sent[t][1], 2, 8) = <<5, 6, 0, 0, 0, 0, 100>>

\* C22: against a device that stores the parameter and answers with a
\* status >= 100, set_param('maximum_current', 150, force=True) succeeds
\* and leaves 150 on the device, and a get_param('maximum_current') made
\* while the device holds 150 returns 150.
C22_SetThenGet ==
    /\ [][\A t \in Threads :
             (/\ op[t] = Op("set_param", "maximum_current", 0, W(150), TRUE,
                            <<>>)
              /\ ReplyChecked(t) /\ GoodReply(t))
                 => /\ result'[t] = Returned(<<>>)
                    /\ dev.param[6] = W(150)]_vars
    /\ [][\A t \in Threads :
             (/\ op[t].op = "get_param" /\ op[t].name = "maximum_current"
              /\ ReplyChecked(t) /\ GoodReply(t)
              /\ dev.param[6] = W(150))
                 => result'[t] = Returned(<<W(150)>>)]_vars

\* The second call of a run, get_param('maximum_current'), has returned the
\* 150 that the first call set.
C22_Witness ==
    \E t \in Threads :
        /\ ncalls = 2 /\ pc[t] = "done"
        /\ op[t].op = "get_param" /\ op[t].name = "maximum_current"
        /\ result[t] = Returned(<<W(150)>>)

\* C23: get_param(name), for every name of the table, writes one 'gap'
\* frame (opcode 6) with the absolute value of the code as type, and
\* returns the value field of a reply that has a valid checksum, a status
\* >= 100 and nothing buffered after it.
C23_GetParam ==
    /\ [](\A t \in Threads :
             (/\ pc[t] = "done" /\ op[t].op = "get_param"
              /\ op[t].name \in DOMAIN PARAMETERS)
                 => LET code == PARAMETERS[op[t].name]
                    IN  WroteOnly(t, 6, IF code < 0 THEN -code ELSE code,
                                  W(0)))
    /\ [][\A t \in Threads :
             (op[t].op = "get_param" /\ ReplyChecked(t) /\ GoodReply(t))
                 => ReturnsValueField(t)]_vars

\* get_param('minimum_speed') (code -130) has returned the reply's value.
C23_Witness ==
    \E t \in Threads :
        /\ pc[t] = "done" /\ op[t].op = "get_param"
        /\ op[t].name = "minimum_speed"
        /\ result[t].kind = "ok"
        /\ sent[t][1][3] = 130

\* C24: set_global on the negative-coded name (random_number) fails as
\* read-only with nothing written; on a code >= 0 it writes one 'sgp'
\* frame (opcode 9) with the code as type; get_global writes one 'ggp'
\* frame (opcode 10) with the absolute code as type and returns the value
\* field of the reply.
C24_Globals ==
    /\ []({n \in DOMAIN GLOBAL_PARAMETERS : GLOBAL_PARAMETERS[n] < 0}
             = {"random_number"})
    /\ [][\A t \in Threads :
             (/\ Calling(t, "set_global")
              /\ op'[t].name \in DOMAIN GLOBAL_PARAMETERS
              /\ GLOBAL_PARAMETERS[op'[t].name] < 0)
                 => FailsUntouched(t, "ReadOnly")]_vars
    /\ [](\A t \in Threads :
             (/\ pc[t] = "done"
              /\ op[t].op \in {"set_global", "get_global"}
              /\ op[t].name \in DOMAIN GLOBAL_PARAMETERS)
                 => LET code == GLOBAL_PARAMETERS[op[t].name]
                    IN  IF op[t].op = "get_global"
                        THEN WroteOnly(t, 10,
                                 IF code < 0 THEN -code ELSE code, W(0))
                        ELSE code >= 0 => WroteOnly(t, 9, code, op[t].v))
    /\ [][\A t \in Threads :
             (op[t].op = "get_global" /\ ReplyChecked(t) /\ GoodReply(t))
                 => ReturnsValueField(t)]_vars

\* get_global('random_number') (code -133), the second call of a run, has
\* returned the reply's value.
C24_Witness ==
    \E t \in Threads :
        /\ ncalls = 2 /\ pc[t] = "done"
        /\ op[t].op = "get_global" /\ op[t].name = "random_number"
        /\ result[t].kind = "ok"
        /\ sent[t][1][2] = 10 /\ sent[t][1][3] = 133

\* C25: stop() writes one 'mst' frame (opcode 3, type 0, motor 0, value 0)
\* and no other frame, and the state of the program on the device is the
\* same after every step taken during a stop().
C25_StopKeepsProgram ==
    /\ [](\A t \in Threads :
             (pc[t] = "done" /\ op[t].op = "stop") => WroteOnly(t, 3, 0, W(0)))
    /\ [][\A t \in Threads :
             (op[t].op = "stop" \/ op'[t].op = "stop")
                 => dev'.prog = dev.prog]_vars

\* stop() has returned while a program runs on the device.
C25_Witness ==
    \E t \in Threads :
        /\ pc[t] = "done" /\ op[t].op = "stop" /\ result[t].kind = "ok"
        /\ Len(sent[t]) = 1 /\ sent[t][1][2] = 3
        /\ dev.prog = 1

\* C26: each program-control operation writes one frame and no other:
\* stop_program 'stop_application' (128); start_program() 'run_application'
\* (129) with type 0 and value 0; start_program(address) type 1 and the
\* address as value, for address 0 too; start_download 'start_download'
\* (132) with the address as value; stop_download 'stop_download' (133);
\* program_status 'get_application_status' (135), and it returns the value
\* field of the reply.
C26_ProgramControl ==
    /\ [](\A t \in Threads :
             pc[t] = "done" =>
                 CASE op[t].op = "stop_program" -> WroteOnly(t, 128, 0, W(0))
                   [] op[t].op = "start_program" /\ op[t].aux = <<>> ->
                          WroteOnly(t, 129, 0, W(0))
                   [] op[t].op = "start_program" /\ op[t].aux # <<>> ->
                          WroteOnly(t, 129, 1, op[t].aux[1])
                   [] op[t].op = "start_download" ->
                          WroteOnly(t, 132, 0, op[t].v)
                   [] op[t].op = "stop_download" -> WroteOnly(t, 133, 0, W(0))
                   [] op[t].op = "program_status" ->
                          WroteOnly(t, 135, 0, W(0))
                   [] OTHER -> TRUE)
    /\ [][\A t \in Threads :
             (op[t].op = "program_status" /\ ReplyChecked(t) /\ GoodReply(t))
                 => ReturnsValueField(t)]_vars

\* start_program(0) has returned, its frame of type 1.
C26_Witness ==
    \E t \in Threads :
        /\ pc[t] = "done" /\ op[t].op = "start_program"
        /\ op[t].aux = <<W(0)>> /\ result[t].kind = "ok"
        /\ SubSeq(sent[t][1], 2, 8) = <<129, 1, 0, 0, 0, 0, 0>>

\* C27: a command() call writes at most one frame and makes at most one
\* read(9): from _send_cmd it goes to the read or ends, from the read to
\* readAll() or ends, and after readAll() it ends; a timeout, extra data, a
\* bad checksum or an error status ends the call with an exception.
C27_NoRetry ==
    /\ [](\A t \in Threads : op[t].op # "set_params" => Len(sent[t]) <= 1)
    /\ [][\A t \in Threads :
             (InCommand(t) /\ pc'[t] # pc[t]) =>
                 /\ pc[t] = "cmd_send" =>
                        /\ pc'[t] \in {"cmd_read", "done"}
                        /\ Len(sent'[t]) <= Len(sent[t]) + 1
                        /\ Len(wire') <= Len(wire) + 1
                 /\ pc[t] = "cmd_read" =>
                        /\ pc'[t] \in {"cmd_drain", "done"}
                        /\ sent' = sent /\ wire' = wire
                 /\ pc[t] = "cmd_drain" =>
                        /\ pc'[t] \in {"sp_iter", "done"}
                        /\ sent' = sent /\ wire' = wire
                        /\ (rxbuf # <<>> \/ ~GoodReply(t)) =>
                               pc'[t] = "done" /\ result'[t].kind = "raise"
                 /\ (pc[t] # "cmd_drain" /\ pc'[t] = "done") =>
                        result'[t].kind = "raise"]_vars

\* A call has ended with the timeout error, its one frame unanswered.
C27_Witness ==
    \E t \in Threads :
        /\ pc[t] = "done" /\ result[t] = Raised("TimeoutError")
        /\ Len(sent[t]) = 1 /\ wire = sent[t] /\ rxbuf = <<>>

\* The call names a command or a parameter that its table does not have.
Unknown(c) ==
    \/ c.op = "command" /\ c.name \notin DOMAIN COMMANDS
    \/ c.op \in {"get_param", "set_param"} /\ c.name \notin DOMAIN PARAMETERS
    \/ c.op \in {"get_global", "set_global"}
           /\ c.name \notin DOMAIN GLOBAL_PARAMETERS

\* C28: a call with a command name missing from COMMANDS, or a parameter
\* name missing from PARAMETERS / GLOBAL_PARAMETERS, writes nothing: each
\* of its steps leaves the transport, _waiting_for_reply and the device
\* unchanged, and it ends with the KeyError, the lock released.
C28_UnknownName ==
    /\ [][\A t \in Threads :
             (pc'[t] # pc[t]
                /\ Unknown(IF pc[t] = "idle" THEN op'[t] ELSE op[t]))
                 => /\ UNCHANGED <<wire, rxbuf, waiting, dev>>
                    /\ sent'[t] = <<>>]_vars
    /\ [](\A t \in Threads :
             (pc[t] = "done" /\ Unknown(op[t]))
                 => /\ result[t] = Raised("KeyError")
                    /\ HoldCount(t) = 0 /\ lock.owner = 0)

\* command('bogus', ...) has gone through the lock and into _send_cmd and
\* ended with the KeyError.
C28_Witness ==
    \E t \in Threads :
        /\ pc[t] = "done" /\ op[t].op = "command" /\ op[t].name = "bogus"
        /\ result[t] = Raised("KeyError")
        /\ lock.owner = 0 /\ wire = <<>>

\* ------------------------------------------------ one caller, a noisy line
\* A single thread makes its calls on a line that may flip any one bit of
\* a reply, add a byte to it, cut its last byte off, or deliver the reply
\* of another module to another command; the device answers with any
\* status.

\* The bits of a 9-byte frame: bit k is bit k % 8 of byte k \div 8 + 1.
Bits == 0..71

\* Frame f with bit k flipped.
FlipBit(f, k) ==
    LET i == k \div 8 + 1
        p == 2 ^ (k % 8)
    IN  [f EXCEPT ![i] = IF (@ \div p) % 2 = 1 THEN @ - p ELSE @ + p]

\* The status bytes of the replies: the ends of 0..99, of the STATUS table
\* 1..6 and of the statuses from 100 on.
FlipStatuses == {0, 1, 6, 7, 99, 100, 101}

\* What the line does to a reply.
FlipNoise == {"none", "flip", "extra", "flip+extra", "short", "stray"}

\* A well-formed reply whose module address and echoed opcode both differ
\* from those of the request frame f.
StrayReply(f, status, value) ==
    Frame(<<2, (f[1] % 255) + 1, status, (f[2] % 255) + 1>>
              \o ValueBytes(value))

\* The bytes that reach the input buffer for reply r to frame f.
Delivered(dv, f, r, status, noise, k) ==
    CASE noise = "flip" -> FlipBit(r, k)
      [] noise = "extra" -> Append(r, 0)
      [] noise = "flip+extra" -> Append(FlipBit(r, k), 0)
      [] noise = "short" -> SubSeq(r, 1, 8)
      [] noise = "stray" -> StrayReply(f, status, DevValue(dv, f))
      [] OTHER -> r

FlipCalls ==
    {Op("command", "sap", 4, v, FALSE, <<>>) :
         v \in {W(0), W(-1), <<32767, Half - 1>>}}
    \cup {Op("get_param", "maximum_speed", 0, W(0), FALSE, <<>>),
          Op("stop", "", 0, W(0), FALSE, <<>>),
          Op("program_status", "", 0, W(0), FALSE, <<>>)}

\* The device answers the frame with any status; the line delivers the
\* reply as it is or with one bit flipped.
DeviceReplyFlipped ==
    /\ wire # <<>>
    /\ \E status \in FlipStatuses, noise \in FlipNoise, k \in Bits :
          LET f == Head(wire)
              r == DevReply(dev, f, "ok", status)
          IN  /\ rxbuf' = rxbuf \o Delivered(dev, f, r, status, noise, k)
              /\ dev' = IF status < 100 THEN dev ELSE DevApply(dev, f)
    /\ wire' = Tail(wire)
    /\ UNCHANGED <<pc, op, cmd, idx, sent, d, result, lock, waiting,
                   module_addr, ncalls>>

FlipNext ==
    \/ \E c \in FlipCalls : SeqInvoke(c)
    \/ Acquire(1)
    \/ SendCmd(1)
    \/ ReadReply(1)
    \/ CheckReply(1)
    \/ Return(1)
    \/ DeviceReplyFlipped

FlipSpec == SeqInit /\ [][FlipNext]_vars

\* The 9 bytes differ in exactly one bit from a frame with a valid checksum.
OneBitFromValid(dd) ==
    \E k \in Bits : LET g == FlipBit(dd, k) IN g[9] = Sum8(g)

\* C29: a 9-byte reply, nothing buffered after it, that differs in one bit
\* from a frame with a valid checksum ends command() with the checksum
\* error, whichever of the 72 bits it is.
C29_BitFlipDetected ==
    [][\A t \in Threads :
          (ReplyChecked(t) /\ OneBitFromValid(d[t]))
              => /\ pc'[t] = "done"
                 /\ result'[t] = Raised("Checksum")]_vars

\* A call has failed with the checksum error on a reply whose status byte
\* has one bit flipped, from the success status 100 to 36.
C29_Witness ==
    \E t \in Threads :
        /\ pc[t] = "done" /\ result[t] = Raised("Checksum")
        /\ d[t][3] = 36
        /\ LET g == FlipBit(d[t], 22) IN g[3] = 100 /\ g[9] = Sum8(g)

\* ------------------------------------------------------------ fair runs
\* Several threads, scheduled fairly: a thread that can take a step of
\* its operation takes it; read(9) returns or times out; the lock is
\* granted fairly, so a thread that finds it free again and again gets it.

Fairness ==
    \A t \in Threads :
        /\ SF_vars(Acquire(t))
        /\ WF_vars(SetParamsStep(t))
        /\ WF_vars(SendCmd(t))
        /\ WF_vars(ReadReply(t))
        /\ WF_vars(CheckReply(t))

\* The calls of the fair runs: an exchange, a failure inside the lock, and
\* a set_params that holds the lock over its exchange.
FairCalls ==
    { Op("get_param", "maximum_current", 0, W(0), FALSE, <<>>),
      Op("command", "bogus", 0, W(0), FALSE, <<>>),
      SetParams(<<KwPair("a", "maximum_speed", W(50))>>) }

FairNext ==
    \/ \E t \in Threads, c \in FairCalls : Invoke(t, c)
    \/ \E t \in Threads : Acquire(t)
    \/ \E t \in Threads : SetParamsStep(t)
    \/ \E t \in Threads : SendCmd(t)
    \/ \E t \in Threads : ReadReply(t)
    \/ \E t \in Threads : CheckReply(t)
    \/ \E t \in Threads : Return(t)
    \/ DeviceReply

FairSpec == Init /\ [][FairNext]_vars /\ Fairness

\* C30: every operation a thread has begun eventually completes, by a
\* return or by an exception.
C30_EventuallyCompletes ==
    \A t \in Threads : (pc[t] \notin {"idle", "done"}) ~> (pc[t] = "done")

\* A thread is in read(9), having waited for the lock and sent its frame,
\* after another thread's exchange has timed out, its frame unanswered.
C30_Witness ==
    \E t, u \in Threads :
        /\ pc[u] = "done" /\ result[u] = Raised("TimeoutError")
        /\ pc[t] = "cmd_read" /\ lock.owner = t
        /\ Len(wire) = 2

\* Thread t is inside set_params, from its with block on.
InSetParams(t) ==
    op[t].op = "set_params"
        /\ pc[t] \in {"sp_iter", "cmd_lock", "cmd_send", "cmd_read", "cmd_drain"}

\* C31: the lock is re-entrant: a set_params that comes, holding the lock,
\* to the with block of command() is let in; it owns the lock from its own
\* with block to its end, through the nested acquisitions and releases,
\* and meanwhile no other thread acquires the lock.
C31_Reentrant ==
    /\ [](\A t \in Threads :
             InSetParams(t) =>
                 /\ lock.owner = t
                 /\ pc[t] = "cmd_lock" => CanEnter(lock, t))
    /\ [][\A t, u \in Threads :
             (t # u /\ InSetParams(t))
                 => ~(pc[u] \in {"cmd_lock", "sp_lock"} /\ pc'[u] # pc[u])]_vars

\* A set_params holds the lock twice, in the command() of its second entry,
\* while another thread's set_params waits for the lock.
C31_Witness ==
    \E t, u \in Threads :
        /\ t # u
        /\ op[t].op = "set_params" /\ pc[t] = "cmd_send" /\ idx[t] = 2
        /\ lock = [owner |-> t, count |-> 2]
        /\ pc[u] = "sp_lock"

\* C32: the module address of a constructed session lies in 1..255 (an
\* address outside it is rejected by __init__), and the first byte of
\* every frame written is that address.
C32_ModuleAddress ==
    /\ module_addr \in 1..255
    /\ \A a \in AddrArgs : a \notin 1..255 => init(a) # ""
    /\ \A f \in Written : f[1] = module_addr /\ f[1] \in 0..255

\* A session with module address 191 has written a frame.
C32_Witness ==
    \E t \in Threads :
        /\ module_addr = 191
        /\ pc[t] = "cmd_read" /\ sent[t][1][1] = 191

\* The named call that an indexed access stands for.
Named(c) ==
    [c EXCEPT !.op = IF c.op = "getitem" THEN "get_param" ELSE "set_param"]

\* C33: controller[name] does what get_param(name) does and
\* controller[name] = v what set_param(name, v) does without force: the
\* same exception before the lock or the same command() call, and the same
\* value returned; controller['maximum_current'] = v with v > 100 fails
\* with the safety error and writes nothing.
C33_IndexedAccess ==
    /\ [][\A t \in Threads :
             (Calling(t, "getitem") \/ Calling(t, "setitem"))
                 => /\ op'[t].flag = FALSE
                    /\ LET o == Prepare(Named(op'[t]))
                       IN  IF o.err # ""
                           THEN FailsUntouched(t, o.err)
                           ELSE pc'[t] = "cmd_lock" /\ cmd'[t] = o]_vars
    /\ [][\A t \in Threads :
             (/\ Calling(t, "setitem")
              /\ op'[t].name = "maximum_current"
              /\ Small(op'[t].v) > 100) => FailsUntouched(t, "Safety")]_vars
    /\ [](\A t \in Threads :
             (/\ pc[t] = "done" /\ op[t].op = "setitem"
              /\ op[t].name = "maximum_speed")
                 => WroteOnly(t, 5, 4, op[t].v))
    /\ [][\A t \in Threads :
             (op[t].op = "getitem" /\ ReplyChecked(t) /\ GoodReply(t))
                 => ReturnsValueField(t)]_vars

\* controller['maximum_current'] = 150 has failed with the safety error,
\* after controller['maximum_current'] = 100 had set the parameter.
C33_Witness ==
    \E t \in Threads :
        /\ pc[t] = "done" /\ op[t].op = "setitem"
        /\ op[t].name = "maximum_current" /\ op[t].v = W(150)
        /\ result[t] = Raised("Safety")
        /\ sent[t] = <<>> /\ wire = <<>>
        /\ dev.param[6] = W(100)

\* In this step thread t's command() call accepts the reply it has read.
Accepts(t) ==
    /\ pc[t] = "cmd_drain" /\ pc'[t] # "cmd_drain"
    /\ get_reply(d[t], ReadAll(rxbuf)) = ""

\* C34 as stated: the reply a command() call accepts is the device's answer
\* to the frame that call wrote; in particular it echoes the opcode of
\* that frame.
C34_ReplyPaired ==
    [][\A t \in Threads : Accepts(t) => d[t][4] = LastFrame(t)[2]]_vars

\* C35: reply handling reports its errors in a fixed order: the read
\* timeout, then extra buffered data, then the checksum mismatch, then the
\* status below 100; a reply passing all four is returned.  So a reply
\* with extra bytes and a bad checksum gives the extra-data error, and one
\* with a bad checksum and a status below 100 the checksum error.
C35_ErrorPrecedence ==
    [][\A t \in Threads :
          /\ (pc[t] = "cmd_read" /\ pc'[t] # "cmd_read" /\ waiting
                 /\ Len(rxbuf) < 9)
                 => result'[t] = Raised("TimeoutError")
          /\ (pc[t] = "cmd_drain" /\ pc'[t] # "cmd_drain")
                 => IF rxbuf # <<>>
                    THEN result'[t] = Raised("ExtraData")
                    ELSE IF d[t][9] # Sum8(d[t])
                         THEN result'[t] = Raised("Checksum")
                         ELSE IF d[t][3] < 100
                              THEN /\ result'[t].kind = "raise"
                                   /\ result'[t].err
                                          \in {"TypeError", "KeyError"}
                              ELSE result'[t].kind = "ok"]_vars

\* A reply with a status below 100, a bad checksum and a byte after it has
\* ended the call with the extra-data error.
C35_Witness ==
    \E t \in Threads :
        /\ pc[t] = "done" /\ result[t] = Raised("ExtraData")
        /\ d[t] # <<>> /\ d[t][9] # Sum8(d[t]) /\ d[t][3] = 99

\* C36: a reply with a valid checksum and a status below 100 that the
\* STATUS table does not hold (0, 7..99) is never returned: the call
\* raises for every status below 100.
C36_UnknownStatusRaises ==
    [][\A t \in Threads :
          (/\ ReplyChecked(t)
           /\ d[t][9] = Sum8(d[t])
           /\ d[t][3] < 100)
              => /\ pc'[t] = "done"
                 /\ result'[t].kind = "raise"
                 /\ result'[t].val = <<>>]_vars

\* A reply with status 0 and a valid checksum has ended the call with an
\* exception.
C36_Witness ==
    \E t \in Threads :
        /\ pc[t] = "done" /\ result[t].kind = "raise"
        /\ sent[t] # <<>> /\ d[t] # <<>>
        /\ d[t][3] = 0 /\ d[t][9] = Sum8(d[t])
        /\ rxbuf = <<>>

\* C37: a 9-byte reply with a valid checksum, a status of 100 or more and
\* nothing buffered after it is returned, whatever its module address
\* and echoed opcode.
C37_AcceptsOnChecksumAndStatus ==
    [][\A t \in Threads :
          (/\ ReplyChecked(t)
           /\ d[t][9] = Sum8(d[t])
           /\ d[t][3] >= 100)
              => /\ pc'[t] = "done"
                 /\ result'[t].kind = "ok"]_vars

\* A call has returned on a reply whose module address and echoed opcode
\* both differ from those of the frame it wrote.
C37_Witness ==
    \E t \in Threads :
        /\ pc[t] = "done" /\ result[t].kind = "ok"
        /\ sent[t] # <<>> /\ d[t] # <<>>
        /\ d[t][2] # LastFrame(t)[1]
        /\ d[t][4] # LastFrame(t)[2]
        /\ d[t][3] = 101

\* C38: _waiting_for_reply becomes True only in the step that has written
\* the frame.  When write() raises, the call ends there with that
\* exception, the flag False and nothing read; and every call that reaches
\* _send_cmd finds the flag False, so it goes on to send.
C38_FlagAfterWrite ==
    /\ [][(~waiting /\ waiting')
             => \E t \in Threads :
                   /\ pc[t] = "cmd_send" /\ pc'[t] = "cmd_read"
                   /\ wire' = Append(wire, Request(module_addr, cmd[t]))
                   /\ sent'[t] = Append(sent[t], LastFrame(t)')]_vars
    /\ [][\A t \in Threads :
             (/\ pc[t] = "cmd_send" /\ pc'[t] # "cmd_send"
              /\ sent'[t] = sent[t]
              /\ send_cmd(waiting, module_addr, cmd[t]) = "")
                 => /\ pc'[t] = "done"
                    /\ result'[t] = Raised("WriteError")
                    /\ ~waiting'
                    /\ UNCHANGED <<wire, rxbuf, d>>]_vars
    /\ [](\A t \in Threads : pc[t] = "cmd_send" => ~waiting)
    /\ [](waiting => \E t \in Threads : pc[t] = "cmd_read")

\* One call has failed in write(); the call after it has written its frame
\* and awaits the reply.
C38_Witness ==
    \E t, u \in Threads :
        /\ pc[u] = "done" /\ result[u] = Raised("WriteError")
        /\ sent[u] = <<>>
        /\ pc[t] = "cmd_read" /\ waiting
        /\ sent[t] # <<>> /\ wire = sent[t]

\* C39: the step in which an exchange fails with the extra-data error
\* empties the input buffer, and the failed call leaves a quiet line: no
\* byte of that exchange is left for the read(9) of the next one.
C39_ExtraDataDrained ==
    /\ [][\A t \in Threads :
             (pc[t] = "cmd_drain" /\ result'[t] = Raised("ExtraData"))
                 => rxbuf # <<>> /\ rxbuf' = <<>>]_vars
    /\ [](\A t \in Threads :
             (pc[t] = "done" /\ result[t] = Raised("ExtraData"))
                 => rxbuf = <<>> /\ wire = <<>>)

\* A call has failed with the extra-data error on a reply followed by one
\* byte, and the buffer is empty.
C39_Witness ==
    \E t \in Threads :
        /\ pc[t] = "done" /\ result[t] = Raised("ExtraData")
        /\ Len(d[t]) = 9 /\ d[t][9] = Sum8(d[t]) /\ d[t][3] = 100
        /\ rxbuf = <<>>

\* ------------------------------------------- _get_reply called directly
\* A single thread makes public calls and, between them, calls _get_reply
\* on its own, outside command() and its lock.  The device answers any
\* time, so the reply to a timed-out exchange may be buffered when the next
\* call is made.

\* _get_reply() called with no command() around it: it starts at its test
\* of the flag.
GetReplyDirect(t) ==
    /\ pc[t] = "idle"
    /\ ncalls < MaxCalls
    /\ ncalls' = ncalls + 1
    /\ op' = [op EXCEPT ![t] = Op("_get_reply", "", 0, W(0), FALSE, <<>>)]
    /\ pc' = [pc EXCEPT ![t] = "cmd_read"]
    /\ UNCHANGED <<cmd, idx, sent, d, result, lock, waiting, module_addr,
                   wire, rxbuf, dev>>

DirectCalls ==
    { Op("get_param", "maximum_current", 0, W(0), FALSE, <<>>),
      Op("set_param", "maximum_speed", 0, W(50), FALSE, <<>>),
      Op("command", "bogus", 0, W(0), FALSE, <<>>),
      Op("getitem", "maximum_speed", 0, W(0), FALSE, <<>>),
      Op("setitem", "minimum_speed", 0, W(10), FALSE, <<>>),
      Op("rotate", "", 0, W(2048), FALSE, <<>>),
      Op("move", "", 0, W(7), FALSE, <<>>),
      Op("stop", "", 0, W(0), FALSE, <<>>),
      Op("get_global", "baud_rate", 0, W(0), FALSE, <<>>),
      Op("set_global", "baud_rate", 0, W(7), FALSE, <<>>),
      Op("start_program", "", 0, W(0), FALSE, <<>>),
      Op("stop_program", "", 0, W(0), FALSE, <<>>),
      Op("start_download", "", 0, W(0), FALSE, <<>>),
      Op("stop_download", "", 0, W(0), FALSE, <<>>),
      Op("program_status", "", 0, W(0), FALSE, <<>>),
      SetParams(<<KwPair("a", "maximum_speed", W(50))>>) }

DirectNext ==
    \/ \E c \in DirectCalls : Invoke(1, c)
    \/ GetReplyDirect(1)
    \/ Acquire(1)
    \/ SetParamsStep(1)
    \/ SendCmd(1)
    \/ ReadReply(1)
    \/ CheckReply(1)
    \/ Return(1)
    \/ DeviceReply

DirectSpec == SeqInit /\ [][DirectNext]_vars

\* C40: _get_reply entered with _waiting_for_reply False raises the
\* 'No reply expected.' exception and reads nothing: the buffer and the
\* bytes last read stay as they are.  No public operation ends with that
\* exception: inside command() the flag is True when _get_reply is entered.
C40_NoReplyExpected ==
    /\ [][\A t \in Threads :
             (pc[t] = "cmd_read" /\ ~waiting /\ pc'[t] # "cmd_read")
                 => /\ pc'[t] = "done"
                    /\ result'[t] = Raised("NoReplyExpected")
                    /\ UNCHANGED <<rxbuf, d, wire, waiting, lock>>]_vars
    /\ [](\A t \in Threads :
             op[t].op # "_get_reply"
                 => /\ result[t].err # "NoReplyExpected"
                    /\ pc[t] = "cmd_read" => waiting)

\* _get_reply called on its own has raised 'No reply expected.' with the
\* late reply of an earlier exchange still in the buffer.
C40_Witness ==
    \E t \in Threads :
        /\ pc[t] = "done" /\ op[t].op = "_get_reply"
        /\ result[t] = Raised("NoReplyExpected")
        /\ Len(rxbuf) >= 9 /\ ~waiting

====
